---- MODULE Spec2Model ----
(***************************************************************************)
(* Model of the legend styling-expression generator of population-viewer   *)
(* (Legend control, expression.js, Map.UpdateMapLayers) together with the  *)
(* PopApp handlers and the Store that feed it.                             *)
(*                                                                         *)
(* JavaScript values are tagged records, so that values of different       *)
(* types can sit in one list and be compared.  Opacities are counted in    *)
(* hundredths (the slider's own unit): 0.5 is 50, 1 is Scale.              *)
(* Of a legend item the fields label, color, value, opacity and group are  *)
(* kept; title, banner, subtitle and the DOM nodes are display only.       *)
(* `call` holds what the most recent Map.UpdateMapLayers compiled, with    *)
(* the legend it was given; a checkbox toggle clears it and a reload puts   *)
(* a note of the reload in its place.                                      *)
(* `layers` are the layers of the map's current style with the paint       *)
(* properties set on them so far; `layerIDs` is current.LayerIDs.          *)
(* `storage` is the localStorage item lode-opacity, `local` the other      *)
(* items; `view` is the current map with the style the map shows and the   *)
(* style it is loading; `toc` is the table-of-contents control.            *)
(* `boot` is the start-up of main.js, `evented` an Evented object with its *)
(* listeners, `choropleth` a call of Map.GenerateColourClasses: each has   *)
(* a specification of its own and stays as it starts in the others.        *)
(***************************************************************************)
EXTENDS Integers, Sequences, FiniteSets, TLC

VARIABLES legend, opacity, storage, call, layers, layerIDs, local, view, toc,
          boot, evented, choropleth

vars == <<legend, opacity, storage, call, layers, layerIDs, local, view, toc,
          boot, evented, choropleth>>

\* the state of PopApp and of its controls
app == <<legend, opacity, storage, call, layers, layerIDs, local, view, toc>>

\* the parts that are not PopApp's
beside == <<boot, evented, choropleth>>

-----------------------------------------------------------------------------
(* JavaScript values *)

Undef == [kind |-> "undefined"]
Null == [kind |-> "null"]
Num(n) == [kind |-> "number", num |-> n]
Str(s) == [kind |-> "string", str |-> s]
Arr(s) == [kind |-> "array", arr |-> s]

IsArray(v) == v.kind = "array"
IsNumber(v) == v.kind = "number"
IsString(v) == v.kind = "string"

\* JavaScript truthiness, as used by every `if (x)` and `a && b` of the code
Truthy(v) ==
    CASE v.kind = "undefined" -> FALSE
      [] v.kind = "null" -> FALSE
      [] v.kind = "number" -> v.num # 0
      [] v.kind = "string" -> v.str # ""
      [] OTHER -> TRUE

\* the slider counts in hundredths: opacity = slider.value / 100
Scale == 100

\* Array.prototype.join(',') on a list of numbers
RECURSIVE Join(_)
Join(s) ==
    IF Len(s) = 0 THEN ""
    ELSE IF Len(s) = 1 THEN ToString(s[1])
    ELSE ToString(s[1]) \o "," \o Join(Tail(s))

-----------------------------------------------------------------------------
(* Legend configuration: rules and groups *)

Rule(label, color, value, op) ==
    [label |-> label, color |-> color, value |-> value, opacity |-> op, group |-> Undef]

Group(heading, items) ==
    [label |-> Undef, color |-> Undef, value |-> Undef, opacity |-> Undef,
     group |-> [kind |-> "object", heading |-> heading, items |-> items]]

Cond(v) == Arr(<<Str("=="), Arr(<<Str("get"), Str("type")>>), Str(v)>>)

CondA == Cond("A")
CondB == Cond("B")

RuleA == Rule(Str("A"), Arr(<<255, 0, 0>>), CondA, Undef)
RuleB == Rule(Str("B"), Arr(<<0, 0, 255>>), CondB, Undef)
RuleGrey == Rule(Str("Other"), Arr(<<128, 128, 128>>), Undef, Undef)
RuleOver == Rule(Str("Over"), Arr(<<255, 255, 255, 0>>), Undef, Num(150))
RuleZero == Rule(Str("Zero"), Arr(<<0, 0, 255>>), CondB, Num(0))
RuleUnder == Rule(Str("Under"), Arr(<<0, 255, 0>>), CondA, Num(-20))
RuleNoLabel == Rule(Undef, Arr(<<255, 0, 0>>), CondA, Undef)
RuleNoColour == Rule(Str("NoColour"), Undef, CondB, Undef)
RuleBadColour == Rule(Str("Bad"), Arr(<<1, 2>>), CondA, Undef)
GroupAB == Group(Str("Types"), Arr(<<RuleB, RuleGrey>>))
GroupNested == Group(Str("Outer"), Arr(<<Group(Str("Inner"), Arr(<<RuleA>>)), RuleGrey>>))

\* entries of the data model: rules with and without value, a fixed opacity
\* in and out of range, three and four colour channels, a one-level group
Entries == {RuleA, RuleGrey, RuleOver, RuleZero, GroupAB}

\* entries the configuration files may also hold: a negative opacity, a rule
\* without label, without colour, with a colour of two channels, a group
\* inside a group
Irregular == {RuleUnder, RuleNoLabel, RuleNoColour, RuleBadColour, GroupNested}

Partners == {RuleA, RuleGrey}

\* longest legend configuration (top-level entries) over Entries
MaxLen == 2

SeqsUpTo(S, n) == UNION {[1..m -> S] : m \in 0..n}

\* an irregular entry alone, before and after a regular rule
IrregularConfigs ==
    {<<x>> : x \in Irregular}
        \cup {<<p, x>> : p \in Partners, x \in Irregular}
        \cup {<<x, p>> : p \in Partners, x \in Irregular}

\* legends of three rules: two conditions in front of a default, and a rule
\* without colour behind a default and a condition
ThreeRuleConfigs == {<<RuleA, RuleB, RuleGrey>>, <<RuleGrey, RuleA, RuleNoColour>>}

\* a map without a legend has Configuration.Legend == null
Configs ==
    {Arr(s) : s \in SeqsUpTo(Entries, MaxLen) \cup IrregularConfigs \cup ThreeRuleConfigs}
        \cup {Null}

-----------------------------------------------------------------------------
(* Legend control *)

\* the item a chkBoxesState entry refers to: the object inside the config
RECURSIVE ItemAtSeq(_, _)
ItemAtSeq(items, path) ==
    IF Len(path) = 1 THEN items[path[1]]
    ELSE ItemAtSeq(items[path[1]].group.items.arr, Tail(path))

ItemAt(config, path) == ItemAtSeq(config.arr, path)

\* assignment to item.opacity through the reference held by chkBoxesState
RECURSIVE SetOpacityAtSeq(_, _, _)
SetOpacityAtSeq(items, path, v) ==
    IF Len(path) = 1
    THEN [items EXCEPT ![path[1]].opacity = v]
    ELSE [items EXCEPT ![path[1]].group.items.arr =
              SetOpacityAtSeq(items[path[1]].group.items.arr, Tail(path), v)]

SetOpacityAt(config, path, v) == Arr(SetOpacityAtSeq(config.arr, path, v))

\* Legend.AddLegendItem for every item of a list, stopping at the first throw.
\* acc = [chk |-> chkBoxesState so far, thrown |-> a TypeError was raised]
RECURSIVE AddLegendItems(_, _, _, _)
RECURSIVE AddLegendItem(_, _, _)
AddLegendItem(item, path, acc) ==
    IF ~Truthy(item.label) /\ ~Truthy(item.group) THEN acc
    ELSE IF Truthy(item.group) /\ Truthy(item.group.heading)
    THEN IF Truthy(item.group.items)
         THEN AddLegendItems(item.group.items.arr, path, 1, acc)
         ELSE acc
    ELSE IF ~IsArray(item.color)
    THEN [acc EXCEPT !.thrown = TRUE]
    ELSE [acc EXCEPT !.chk = Append(@, [path |-> path, checked |-> TRUE])]

AddLegendItems(items, prefix, i, acc) ==
    IF acc.thrown \/ i > Len(items) THEN acc
    ELSE AddLegendItems(items, prefix, i + 1,
                        AddLegendItem(items[i], prefix \o <<i>>, acc))

LoadLegend(config) ==
    IF IsArray(config)
    THEN AddLegendItems(config.arr, <<>>, 1, [chk |-> <<>>, thrown |-> FALSE])
    ELSE [chk |-> <<>>, thrown |-> FALSE]

GetStylingFromLegendItem(legendItem) ==
    IF Truthy(legendItem.color)
    THEN [color |-> legendItem.color,
          value |-> IF Truthy(legendItem.value) THEN legendItem.value ELSE Undef]
    ELSE [color |-> Undef, value |-> Undef]

RECURSIVE StylesOfItems(_, _)
StylesOfItems(items, j) ==
    IF j > Len(items) THEN <<>>
    ELSE <<GetStylingFromLegendItem(items[j])>> \o StylesOfItems(items, j + 1)

RECURSIVE StylesLoop(_, _)
StylesLoop(items, i) ==
    IF i > Len(items) THEN <<>>
    ELSE LET legendItem == items[i]
         IN (IF Truthy(legendItem.group) /\ Truthy(legendItem.group.items)
             THEN StylesOfItems(legendItem.group.items.arr, 1)
             ELSE <<GetStylingFromLegendItem(legendItem)>>)
            \o StylesLoop(items, i + 1)

\* the loop started one entry late
GetListOfStylesFromSecond(legendConfig) ==
    IF IsArray(legendConfig) THEN StylesLoop(legendConfig.arr, 2) ELSE <<>>

GetListOfStyles(legendConfig) ==
    IF IsArray(legendConfig) THEN StylesLoop(legendConfig.arr, 1) ELSE <<>>

-----------------------------------------------------------------------------
(* expression.js *)

\* three channels written with the prefix of four
colourListToRGBStringAlpha(colourList) ==
    IF IsArray(colourList) /\ Len(colourList.arr) >= 3
    THEN IF Len(colourList.arr) \in {3, 4}
         THEN Str("rgba(" \o Join(colourList.arr) \o ")")
         ELSE Undef
    ELSE Undef

colourListToRGBString(colourList) ==
    IF IsArray(colourList) /\ Len(colourList.arr) >= 3
    THEN IF Len(colourList.arr) = 3
         THEN Str("rgb(" \o Join(colourList.arr) \o ")")
         ELSE IF Len(colourList.arr) = 4
         THEN Str("rgba(" \o Join(colourList.arr) \o ")")
         ELSE Undef
    ELSE Undef

\* storedOpacity >= 0 && storedOpacity <= 1 (false for undefined)
InUnitRange(v) == IsNumber(v) /\ v.num >= 0 /\ v.num <= Scale

\* the loop of generateLegendOpacityValues over chkBoxesState; `config` carries
\* the writes to chkBox.item.opacity
RECURSIVE LegendOpacityLoop(_, _, _, _, _)
LegendOpacityLoop(chk, i, storedOpacity, config, legendOpacities) ==
    IF i > Len(chk) THEN [values |-> legendOpacities, config |-> config]
    ELSE LET chkBox == chk[i]
             item == ItemAt(config, chkBox.path)
         IN IF ~chkBox.checked
            THEN LegendOpacityLoop(chk, i + 1, storedOpacity, config,
                                   Append(legendOpacities, Num(0)))
            ELSE IF Truthy(item.opacity) /\ IsNumber(item.opacity)
            THEN LET clamped == IF item.opacity.num > Scale THEN Num(Scale)
                                ELSE IF item.opacity.num < 0 THEN Num(0)
                                ELSE item.opacity
                 IN LegendOpacityLoop(chk, i + 1, storedOpacity,
                                      SetOpacityAt(config, chkBox.path, clamped),
                                      Append(legendOpacities, clamped))
            ELSE LegendOpacityLoop(chk, i + 1, storedOpacity, config,
                                   Append(legendOpacities, storedOpacity))

\* the checkbox test lost: every rule is taken as checked
generateLegendOpacityValuesUnchecked(lgd, storedOpacity) ==
    IF Truthy(lgd.chkBoxesState)
    THEN LegendOpacityLoop([i \in 1..Len(lgd.chkBoxesState.arr) |->
                               [lgd.chkBoxesState.arr[i] EXCEPT !.checked = TRUE]],
                           1, storedOpacity, lgd.config, <<>>)
    ELSE [values |-> <<>>, config |-> lgd.config]

generateLegendOpacityValues(lgd, storedOpacity) ==
    IF Truthy(lgd.chkBoxesState)
    THEN LegendOpacityLoop(lgd.chkBoxesState.arr, 1, storedOpacity, lgd.config, <<>>)
    ELSE [values |-> <<>>, config |-> lgd.config]

\* the loop of generateColourExpression; st holds its function-scoped
\* variables styleColor, defaultColour and expression
RECURSIVE ColourLoop(_, _, _)
ColourLoop(legendStyles, i, st) ==
    IF i > Len(legendStyles) THEN st
    ELSE LET styleItem == legendStyles[i]
             styleColor == IF Truthy(styleItem.color)
                           THEN colourListToRGBString(styleItem.color)
                           ELSE st.styleColor
         IN IF Truthy(styleItem.value) /\ Truthy(styleColor)
            THEN ColourLoop(legendStyles, i + 1,
                     [st EXCEPT !.styleColor = styleColor,
                                !.expression = @ \o <<styleItem.value, styleColor>>])
            ELSE ColourLoop(legendStyles, i + 1,
                     [st EXCEPT !.styleColor = styleColor,
                                !.defaultColour = styleColor])

\* the default pushed only when one was found
generateColourExpressionOptionalDefault(lgd) ==
    IF Truthy(lgd.config)
    THEN LET legendStyles == GetListOfStyles(lgd.config)
         IN IF Len(legendStyles) > 1
            THEN LET st == ColourLoop(legendStyles, 1,
                               [styleColor |-> Undef, defaultColour |-> Undef,
                                expression |-> <<Str("case")>>])
                 IN Arr(IF Truthy(st.defaultColour)
                        THEN Append(st.expression, st.defaultColour)
                        ELSE st.expression)
            ELSE IF Len(legendStyles) = 1
            THEN IF Truthy(legendStyles[1].color)
                 THEN colourListToRGBString(legendStyles[1].color)
                 ELSE Undef
            ELSE Undef
    ELSE Undef

generateColourExpression(lgd) ==
    IF Truthy(lgd.config)
    THEN LET legendStyles == GetListOfStyles(lgd.config)
         IN IF Len(legendStyles) > 1
            THEN LET st == ColourLoop(legendStyles, 1,
                               [styleColor |-> Undef, defaultColour |-> Undef,
                                expression |-> <<Str("case")>>])
                 IN Arr(Append(st.expression, st.defaultColour))
            ELSE IF Len(legendStyles) = 1
            THEN IF Truthy(legendStyles[1].color)
                 THEN colourListToRGBString(legendStyles[1].color)
                 ELSE Undef
            ELSE Undef
    ELSE Undef

\* legendOpacities[i], undefined past the end of the list
OpacityAt(legendOpacities, i) ==
    IF i <= Len(legendOpacities) THEN legendOpacities[i] ELSE Undef

RECURSIVE OpacityLoop(_, _, _, _, _)
OpacityLoop(legendStyles, legendOpacities, op, i, st) ==
    IF i > Len(legendStyles) THEN st
    ELSE LET styleItem == legendStyles[i]
             styleOpacity == OpacityAt(legendOpacities, i)
         IN IF Truthy(styleItem.value) /\ InUnitRange(styleOpacity)
            THEN OpacityLoop(legendStyles, legendOpacities, op, i + 1,
                     [st EXCEPT !.expression = @ \o <<styleItem.value, styleOpacity>>])
            ELSE OpacityLoop(legendStyles, legendOpacities, op, i + 1,
                     [st EXCEPT !.defaultOpacity =
                          IF InUnitRange(styleOpacity) THEN styleOpacity ELSE op])

\* the expression built from the flattened styles and the per-rule opacities
OpacityExpressionOf(lgd, op, legendOpacities) ==
    LET legendStyles == IF Truthy(lgd.config) THEN GetListOfStyles(lgd.config) ELSE <<>>
    IN IF Truthy(lgd.config) /\ Len(legendStyles) > 1 /\ Len(legendOpacities) > 1
       THEN LET st == OpacityLoop(legendStyles, legendOpacities, op, 1,
                          [defaultOpacity |-> Undef, expression |-> <<Str("case")>>])
            IN Arr(Append(st.expression, st.defaultOpacity))
       ELSE IF Truthy(lgd.config) /\ Len(legendStyles) = 1 /\ Len(legendOpacities) = 1
       THEN legendOpacities[1]
       ELSE Undef

\* returns the expression, the per-rule opacities it was built from and the
\* legend configuration as generateLegendOpacityValues leaves it
generateOpacityExpression(lgd, op) ==
    LET r == generateLegendOpacityValues(lgd, op)
    IN [expression |-> OpacityExpressionOf(lgd, op, r.values),
        values |-> r.values,
        config |-> r.config]

\* a visible opacity kept at one hundredth
BinarizeToHundredth(x) == IF x.num > 0 THEN Num(1) ELSE Num(0)

\* expression.push(1) / expression.push(0): 1 is Scale hundredths
Binarize(x) == IF x.num > 0 THEN Num(Scale) ELSE Num(0)

\* every number taken as visible, zero included
generateSymbolOpacityExpressionNonNegative(opacityExpression) ==
    IF IsArray(opacityExpression) /\ Len(opacityExpression.arr) > 1
    THEN Arr([i \in 1..Len(opacityExpression.arr) |->
                 IF IsNumber(opacityExpression.arr[i])
                 THEN (IF opacityExpression.arr[i].num >= 0 THEN Num(Scale) ELSE Num(0))
                 ELSE opacityExpression.arr[i]])
    ELSE IF IsNumber(opacityExpression)
    THEN (IF opacityExpression.num >= 0 THEN Num(Scale) ELSE Num(0))
    ELSE Undef

generateSymbolOpacityExpression(opacityExpression) ==
    IF IsArray(opacityExpression) /\ Len(opacityExpression.arr) > 1
    THEN Arr([i \in 1..Len(opacityExpression.arr) |->
                 IF IsNumber(opacityExpression.arr[i])
                 THEN Binarize(opacityExpression.arr[i])
                 ELSE opacityExpression.arr[i]])
    ELSE IF IsNumber(opacityExpression)
    THEN Binarize(opacityExpression)
    ELSE Undef

-----------------------------------------------------------------------------
(* Store (src/store.js) over localStorage *)

DefaultOpacity == 75

\* values the slider can report (slider.value / 100, in hundredths)
SliderValues == {0, 50, 100}

\* Number(x) of a stored string or of null
NumberOf(v) ==
    IF v.kind = "null" THEN 0
    ELSE CHOOSE n \in -(2 * Scale) .. (2 * Scale) : ToString(n) = v.str

\* localStorage.setItem stores String(value)
StoreSetOpacity(value) == Str(ToString(value))

\* Number(localStorage.getItem("lode-opacity")) || 0.75
StoreGetOpacity(item) ==
    IF NumberOf(item) # 0 THEN NumberOf(item) ELSE DefaultOpacity

\* localStorage without the items lode-map, lode-layer, lode-zoom,
\* lode-center-lat and lode-center-lng
NoItems == [map |-> Null, layer |-> Null, zoom |-> Null, lat |-> Null, lng |-> Null]

-----------------------------------------------------------------------------
(* Parts with a specification of their own, as they start *)

\* the map definitions listed in config.applications.json
MapIds == {"trans", "pop"}

Definitions == {"def:" \o m : m \in MapIds}

\* the JSON requests whose `then` fills a field of config
Filling == {"bookmarks", "search", "table", "credentials"}

\* the promises of main.js: the requests, splash.Show() and p1 of Start
Promises == {"nls", "splash", "apps", "maps"} \cup Definitions \cup Filling

\* main.js as the module is evaluated: the request for config.nls.json is
\* out, nothing else has begun.  A promise is idle (not made yet), pending,
\* resolved (its `then` callback not yet run), done or failed.
BootInit ==
    [status |-> [q \in Promises |-> IF q = "nls" THEN "pending" ELSE "idle"],
     config |-> {},
     constructed |-> 0]

\* new Evented(): no listener; nothing dispatched yet.  Of the last Emit are
\* kept the listeners it started with, the callbacks it invoked, in order,
\* and whether it ended in a TypeError.
EventedInit ==
    [listeners |-> <<>>, last |-> "none", before |-> <<>>, invoked |-> <<>>,
     thrown |-> FALSE]

ChoroplethInit == [kind |-> "none"]

Beside ==
    /\ boot = BootInit
    /\ evented = EventedInit
    /\ choropleth = ChoroplethInit

\* no Map.UpdateMapLayers yet
NoCall == [kind |-> "none"]

\* no map chosen, no style shown or loading, no listener waiting for the
\* style, no layer chosen before the present one
NoView ==
    [current |-> "", style |-> "", loading |-> "", pending |-> 0, previous |-> "",
     initially |-> ""]

\* new Toc(options) with no items
NoToc == [radios |-> <<>>, current |-> Undef, thrown |-> FALSE]

\* PopApp and its controls before the application is made
NoApp ==
    /\ legend = [config |-> Null, chkBoxesState |-> Arr(<<>>)]
    /\ storage = Null
    /\ opacity = StoreGetOpacity(storage)
    /\ call = NoCall
    /\ layerIDs = <<>>
    /\ layers = <<>>
    /\ local = NoItems
    /\ view = NoView
    /\ toc = NoToc

-----------------------------------------------------------------------------
(* Evented: the listeners of one event type *)

\* most listeners registered at a time
MaxListeners == 3

\* the callbacks registered: f and g return at once, h calls
\* this.Off(type, h)
Callbacks == {"f", "g", "h"}

\* addEventListener(type, callback, once); n counts the invocations of the
\* registration, as far as 2
addEventListener(stack, c, once) ==
    Append(stack, [callback |-> c, once |-> once, n |-> 0])

\* removeEventListener(type, callback): splices the first registration of
\* the callback and calls itself again, until none is left
removeEventListener(stack, c) ==
    SelectSeq(stack, LAMBDA h : h.callback # c)

\* stack[i].callback.call(this, event) on the live stack
Invoke(stack, i) ==
    LET counted == [stack EXCEPT ![i].n = IF @ < 2 THEN @ + 1 ELSE @]
    IN IF stack[i].callback = "h"
       THEN removeEventListener(counted, "h")
       ELSE counted

\* the first loop of dispatchEvent, i counting up against stack.length
RECURSIVE InvokeLoop(_, _, _)
InvokeLoop(stack, i, invoked) ==
    IF i > Len(stack) THEN [stack |-> stack, invoked |-> invoked]
    ELSE InvokeLoop(Invoke(stack, i), i + 1, Append(invoked, stack[i].callback))

\* the second loop, i counting down from the length the stack had when the
\* loop began; stack[i] past the end is undefined and .once throws
RECURSIVE OnceLoop(_, _)
OnceLoop(stack, i) ==
    IF i < 1 THEN [stack |-> stack, thrown |-> FALSE]
    ELSE IF i > Len(stack) THEN [stack |-> stack, thrown |-> TRUE]
    ELSE IF stack[i].once
    THEN OnceLoop(removeEventListener(stack, stack[i].callback), i - 1)
    ELSE OnceLoop(stack, i - 1)

dispatchEvent(stack) ==
    LET first == InvokeLoop(stack, 1, <<>>)
        second == OnceLoop(first.stack, Len(first.stack))
    IN [stack |-> second.stack, invoked |-> first.invoked, thrown |-> second.thrown]

Registered(stack) ==
    [listeners |-> stack, last |-> "none", before |-> <<>>, invoked |-> <<>>,
     thrown |-> FALSE]

On(c) ==
    /\ Len(evented.listeners) < MaxListeners
    /\ evented' = Registered(addEventListener(evented.listeners, c, FALSE))
    /\ UNCHANGED <<app, boot, choropleth>>

Once(c) ==
    /\ Len(evented.listeners) < MaxListeners
    /\ evented' = Registered(addEventListener(evented.listeners, c, TRUE))
    /\ UNCHANGED <<app, boot, choropleth>>

Off(c) ==
    /\ evented' = Registered(removeEventListener(evented.listeners, c))
    /\ UNCHANGED <<app, boot, choropleth>>

Emit ==
    /\ evented.listeners # <<>>
    /\ LET d == dispatchEvent(evented.listeners)
       IN evented' = [listeners |-> d.stack, last |-> "emit",
                      before |-> evented.listeners, invoked |-> d.invoked,
                      thrown |-> d.thrown]
    /\ UNCHANGED <<app, boot, choropleth>>

InitEvented == NoApp /\ Beside

NextEvented ==
    \/ \E c \in Callbacks : On(c)
    \/ \E c \in Callbacks : Once(c)
    \/ \E c \in Callbacks : Off(c)
    \/ Emit

SpecEvented == InitEvented /\ [][NextEvented]_vars

-----------------------------------------------------------------------------
(* main.js: the start-up *)

\* a request is answered with status 200: a request with a `then` of its own
\* (nls, the four that fill config) is resolved, any other is done
RequestResolves(q) ==
    /\ q \in Promises \ {"splash", "maps"}
    /\ boot.status[q] = "pending"
    /\ boot' = [boot EXCEPT !.status[q] =
                    IF q \in Filling \cup {"nls"} THEN "resolved" ELSE "done"]
    /\ UNCHANGED <<app, evented, choropleth>>

\* a request is answered with another status: Net.Request rejects
RequestFails(q) ==
    /\ q \in Promises \ {"splash", "maps"}
    /\ boot.status[q] = "pending"
    /\ boot' = [boot EXCEPT !.status[q] = "failed"]
    /\ UNCHANGED <<app, evented, choropleth>>

\* the callback of lines 9-19: the splash is shown and the list of
\* applications requested
NlsThen ==
    /\ boot.status["nls"] = "resolved"
    /\ boot' = [boot EXCEPT !.status["nls"] = "done",
                            !.status["splash"] = "pending",
                            !.status["apps"] = "pending"]
    /\ UNCHANGED <<app, evented, choropleth>>

\* the promise of splash.Show() is fulfilled
SplashCloses ==
    /\ boot.status["splash"] = "pending"
    /\ boot' = [boot EXCEPT !.status["splash"] = "done"]
    /\ UNCHANGED <<app, evented, choropleth>>

\* Start(results), once Promise.all([p1, p2]) of line 18 is fulfilled: the
\* map definitions and the four other files are requested
Start ==
    /\ boot.status["splash"] = "done"
    /\ boot.status["apps"] = "done"
    /\ boot.status["maps"] = "idle"
    /\ boot' = [boot EXCEPT !.status =
                    [q \in Promises |->
                        IF q \in Definitions \cup Filling \cup {"maps"}
                        THEN "pending" ELSE @[q]]]
    /\ UNCHANGED <<app, evented, choropleth>>

\* the callback of lines 26-30, once every definition has arrived
MapsThen ==
    /\ boot.status["maps"] = "pending"
    /\ \A d \in Definitions : boot.status[d] = "done"
    /\ boot' = [boot EXCEPT !.status["maps"] = "done", !.config = @ \cup {"maps"}]
    /\ UNCHANGED <<app, evented, choropleth>>

\* the callbacks of lines 32-46
FillThen(q) ==
    /\ q \in Filling
    /\ boot.status[q] = "resolved"
    /\ boot' = [boot EXCEPT !.status[q] = "done", !.config = @ \cup {q}]
    /\ UNCHANGED <<app, evented, choropleth>>

\* the application made without waiting for the credentials
NewApplicationBeforeCredentials ==
    /\ \A q \in {"maps", "bookmarks", "search", "table"} : boot.status[q] = "done"
    /\ boot.constructed = 0
    /\ boot' = [boot EXCEPT !.constructed = @ + 1]
    /\ UNCHANGED <<app, evented, choropleth>>

\* the callback of lines 48-50, run once, when Promise.all([p1..p5]) is
\* fulfilled
NewApplication ==
    /\ \A q \in {"maps"} \cup Filling : boot.status[q] = "done"
    /\ boot.constructed = 0
    /\ boot' = [boot EXCEPT !.constructed = @ + 1]
    /\ UNCHANGED <<app, evented, choropleth>>

InitStart == NoApp /\ Beside

NextStart ==
    \/ \E q \in Promises : RequestResolves(q)
    \/ \E q \in Promises : RequestFails(q)
    \/ NlsThen
    \/ SplashCloses
    \/ Start
    \/ MapsThen
    \/ \E q \in Filling : FillThen(q)
    \/ NewApplication

SpecStart == InitStart /\ [][NextStart]_vars

-----------------------------------------------------------------------------
(* Map.UpdateMapLayers and the handlers *)

\* the layers of a style, none of them painted yet
Unpainted(types) == [id \in DOMAIN types |-> [type |-> types[id], paint |-> <<>>]]

\* Map.GetLayerType: undefined for a layer the style does not have
GetLayerType(ls, layerId) ==
    IF layerId \in DOMAIN ls /\ ls[layerId].type # ""
    THEN Str(ls[layerId].type) ELSE Undef

\* Map.SetPaintProperty: only if the layer exists
SetPaintProperty(ls, layerId, property, value) ==
    IF layerId \in DOMAIN ls
    THEN [ls EXCEPT ![layerId].paint = (property :> value) @@ @]
    ELSE ls

\* the colour also goes to a symbol layer
ColourLayerOfAnyType(ls, currentLayerID, colourExpression) ==
    LET layerType == GetLayerType(ls, currentLayerID)
    IN IF Truthy(layerType)
       THEN SetPaintProperty(ls, currentLayerID, layerType.str \o "-color", colourExpression)
       ELSE ls

\* one turn of the colour loop
ColourLayer(ls, currentLayerID, colourExpression) ==
    LET layerType == GetLayerType(ls, currentLayerID)
    IN IF Truthy(layerType) /\ layerType # Str("symbol")
       THEN SetPaintProperty(ls, currentLayerID, layerType.str \o "-color", colourExpression)
       ELSE ls

RECURSIVE ColourLayers(_, _, _, _)
ColourLayers(ls, ids, i, colourExpression) ==
    IF i > Len(ids) THEN ls
    ELSE ColourLayers(ColourLayer(ls, ids[i], colourExpression), ids, i + 1, colourExpression)

\* one turn of the opacity loop
FadeLayer(ls, currentLayerID, opacityExpression, symbolOpacityExpression) ==
    LET layerType == GetLayerType(ls, currentLayerID)
    IN IF ~Truthy(layerType) THEN ls
       ELSE IF layerType # Str("symbol")
       THEN LET faded == SetPaintProperty(ls, currentLayerID,
                                          layerType.str \o "-opacity", opacityExpression)
            IN IF layerType = Str("circle")
               THEN SetPaintProperty(faded, currentLayerID,
                                     "circle-stroke-opacity", opacityExpression)
               ELSE faded
       ELSE SetPaintProperty(ls, currentLayerID, "text-opacity", symbolOpacityExpression)

\* the loop given up at the first layer the style does not have
RECURSIVE FadeLayersUntilMissing(_, _, _, _, _)
FadeLayersUntilMissing(ls, ids, i, opacityExpression, symbolOpacityExpression) ==
    IF i > Len(ids) \/ ids[i] \notin DOMAIN ls THEN ls
    ELSE FadeLayersUntilMissing(
             FadeLayer(ls, ids[i], opacityExpression, symbolOpacityExpression),
             ids, i + 1, opacityExpression, symbolOpacityExpression)

RECURSIVE FadeLayers(_, _, _, _, _)
FadeLayers(ls, ids, i, opacityExpression, symbolOpacityExpression) ==
    IF i > Len(ids) THEN ls
    ELSE FadeLayers(FadeLayer(ls, ids[i], opacityExpression, symbolOpacityExpression),
                    ids, i + 1, opacityExpression, symbolOpacityExpression)

\* the two loops of Map.UpdateMapLayers over the layers, given what it
\* compiled: the colour if the colour expression is truthy, the opacity if
\* both opacity expressions are truthy or 0
PaintLayers(ls, c) ==
    LET coloured == IF Truthy(c.colour)
                    THEN ColourLayers(ls, c.layerIDs, 1, c.colour) ELSE ls
    IN IF (Truthy(c.expression) \/ c.expression = Num(0))
          /\ (Truthy(c.symbol) \/ c.symbol = Num(0))
       THEN FadeLayers(coloured, c.layerIDs, 1, c.expression, c.symbol)
       ELSE coloured

\* the stored opacity handed on as it comes
UpdateMapLayersUnclamped(by, ids, lgd, storedOpacity) ==
    LET op == Num(storedOpacity)
        colourExpression == generateColourExpression(lgd)
        r == generateOpacityExpression(lgd, op)
    IN [kind |-> "call", by |-> by, layerIDs |-> ids,
        config |-> lgd.config, chk |-> lgd.chkBoxesState,
        stored |-> storedOpacity, opacity |-> op,
        styles |-> GetListOfStyles(lgd.config),
        colour |-> colourExpression,
        values |-> r.values,
        expression |-> r.expression,
        symbol |-> generateSymbolOpacityExpression(r.expression),
        after |-> r.config]

\* Map.UpdateMapLayers(layerIDs, legend, storedOpacity): the expressions it
\* compiles, with the legend it was given and the legend it leaves behind
UpdateMapLayers(by, ids, lgd, storedOpacity) ==
    LET op == IF storedOpacity >= 0 /\ storedOpacity <= Scale
              THEN Num(storedOpacity) ELSE Num(Scale)
        colourExpression == generateColourExpression(lgd)
        r == generateOpacityExpression(lgd, op)
    IN [kind |-> "call", by |-> by, layerIDs |-> ids,
        config |-> lgd.config, chk |-> lgd.chkBoxesState,
        stored |-> storedOpacity, opacity |-> op,
        styles |-> GetListOfStyles(lgd.config),
        colour |-> colourExpression,
        values |-> r.values,
        expression |-> r.expression,
        symbol |-> generateSymbolOpacityExpression(r.expression),
        after |-> r.config]

\* new Legend(options): Reload(options.config, ...) must not throw
Init ==
    /\ \E c \in Configs :
          /\ ~LoadLegend(c).thrown
          /\ legend = [config |-> c, chkBoxesState |-> Arr(LoadLegend(c).chk)]
    /\ storage \in {Null} \cup {StoreSetOpacity(v) : v \in SliderValues}
    /\ opacity = StoreGetOpacity(storage)
    /\ call = NoCall
    /\ layerIDs = <<>>
    /\ layers = Unpainted(<<>>)
    /\ local = NoItems
    /\ view = NoView
    /\ toc = NoToc
    /\ Beside

\* what `call` holds after a reload: whether a checkbox of the legend
\* reloaded was unchecked
Reloaded(lgd) ==
    [kind |-> "reload",
     unchecked |-> \E i \in 1..Len(lgd.chkBoxesState.arr) : ~lgd.chkBoxesState.arr[i].checked]

\* LoadLegend without `this.chkBoxesState = []`
ReloadKeepingCheckboxes(c) ==
    /\ legend' = [config |-> c,
                  chkBoxesState |-> Arr(legend.chkBoxesState.arr \o LoadLegend(c).chk)]
    /\ call' = Reloaded(legend)
    /\ UNCHANGED <<opacity, storage, layers, layerIDs, local, view, toc, beside>>

\* Legend.Reload(config, ...): a throw inside AddLegendItem leaves the
\* checkbox state as far as it was built
Reload(c) ==
    /\ legend' = [config |-> c, chkBoxesState |-> Arr(LoadLegend(c).chk)]
    /\ call' = Reloaded(legend)
    /\ UNCHANGED <<opacity, storage, layers, layerIDs, local, view, toc, beside>>

\* the user clicks the i-th legend checkbox; Legend.OnCheckbox_Checked emits
\* LegendChange, to which PopApp does not listen
OnCheckbox_Checked(i) ==
    /\ i \in 1..Len(legend.chkBoxesState.arr)
    /\ legend' = [legend EXCEPT !.chkBoxesState.arr[i].checked = ~@]
    /\ call' = NoCall
    /\ UNCHANGED <<opacity, storage, layers, layerIDs, local, view, toc, beside>>

\* Opacity.onSliderChange_Handler then PopApp.OnOpacitySlider_Changed
OnOpacitySlider_Changed(v) ==
    /\ opacity' = v
    /\ storage' = StoreSetOpacity(v)
    /\ call' = UpdateMapLayers("OnOpacitySlider_Changed", layerIDs, legend,
                                StoreGetOpacity(storage'))
    /\ legend' = [legend EXCEPT !.config = call'.after]
    /\ layers' = PaintLayers(layers, call')
    /\ UNCHANGED <<layerIDs, local, view, toc, beside>>

SearchColours == {Arr(<<255, 0, 0>>)}

\* config.search.layer
SearchLayer == "search"

\* PopApp.OnSearchChange_Handler: a legend literal without checkbox state
OnSearchChange_Handler(color) ==
    LET lgd == [config |-> Arr(<<[color |-> color, value |-> CondA,
                                  label |-> Undef, opacity |-> Undef, group |-> Undef],
                                 [color |-> Arr(<<255, 255, 255, 0>>), value |-> Undef,
                                  label |-> Undef, opacity |-> Undef, group |-> Undef]>>),
                chkBoxesState |-> Undef]
    IN /\ call' = UpdateMapLayers("OnSearchChange_Handler", <<SearchLayer>>, lgd,
                                   StoreGetOpacity(storage))
       /\ layers' = PaintLayers(layers, call')
       /\ UNCHANGED <<legend, opacity, storage, layerIDs, local, view, toc, beside>>

Next ==
    \/ \E c \in Configs : Reload(c)
    \/ \E i \in 1..Len(legend.chkBoxesState.arr) : OnCheckbox_Checked(i)
    \/ \E v \in SliderValues : OnOpacitySlider_Changed(v)
    \/ \E color \in SearchColours : OnSearchChange_Handler(color)

Spec == Init /\ [][Next]_vars

-----------------------------------------------------------------------------
(* PopApp on a map whose style has the layers *)

\* Configuration.Legend keeps color, label and value of each legend entry
AppConfigs ==
    {Arr(<<RuleA, RuleB, RuleGrey>>), Arr(<<RuleA, RuleGrey>>), Arr(<<RuleA>>),
     Arr(<<RuleGrey>>), Null}

\* the layers of the style, by id: a fill, a circle, a symbol and a line
StyleLayers ==
    ("da" :> "fill") @@ ("db" :> "circle") @@ ("da-label" :> "symbol")
        @@ (SearchLayer :> "line")

\* Configuration.LayerIDs of the current map; the style has no layer "csd"
CurrentLayerIDs == <<"da", "csd", "db", "da-label">>

InitApp ==
    /\ \E c \in AppConfigs :
          legend = [config |-> c, chkBoxesState |-> Arr(LoadLegend(c).chk)]
    /\ storage \in {Null} \cup {StoreSetOpacity(v) : v \in SliderValues}
    /\ opacity = StoreGetOpacity(storage)
    /\ call = NoCall
    /\ layerIDs = CurrentLayerIDs
    /\ layers = Unpainted(StyleLayers)
    /\ local = NoItems
    /\ view = NoView
    /\ toc = NoToc
    /\ Beside

NextApp ==
    \/ \E i \in 1..Len(legend.chkBoxesState.arr) : OnCheckbox_Checked(i)
    \/ \E v \in SliderValues : OnOpacitySlider_Changed(v)
    \/ \E color \in SearchColours : OnSearchChange_Handler(color)

SpecApp == InitApp /\ [][NextApp]_vars

-----------------------------------------------------------------------------
(* Map.GenerateColourClasses, the earlier colour compiler *)

\* `${x}` of a number counted in hundredths: 0 is "0", 50 is "0.5", 75 is
\* "0.75", 100 is "1"
NumberText(h) ==
    IF h % Scale = 0 THEN ToString(h \div Scale)
    ELSE IF h % 10 = 0 THEN ToString(h \div Scale) \o "." \o ToString((h % Scale) \div 10)
    ELSE IF h % Scale < 10 THEN ToString(h \div Scale) \o ".0" \o ToString(h % Scale)
    ELSE ToString(h \div Scale) \o "." \o ToString(h % Scale)

\* `${x}` of what a list of opacities holds at an index, or of the opacity
\* itself: a number, nothing (undefined), or an empty list
TemplateText(v) ==
    IF IsNumber(v) THEN NumberText(v.num)
    ELSE IF IsArray(v) THEN ""
    ELSE "undefined"

\* styleOpacities[i]
OpacityOfStyle(styleOpacities, i) ==
    IF i <= Len(styleOpacities.arr) THEN styleOpacities.arr[i] ELSE Undef

\* the ternary that writes the colour of one style
UpdatedColor(styleItem, op) ==
    IF Len(styleItem.color.arr) = 3
    THEN Str("rgba(" \o Join(styleItem.color.arr) \o "," \o TemplateText(op) \o ")")
    ELSE Str("rgba(" \o Join(styleItem.color.arr) \o ")")

\* the loop over the styles: classes so far, defaultColour so far; reading
\* .length of a colour that is not there is a TypeError
RECURSIVE ClassesLoop(_, _, _, _, _)
ClassesLoop(legendStyles, styleOpacities, i, classes, defaultColour) ==
    IF i > Len(legendStyles)
    THEN [classes |-> Append(classes, defaultColour), thrown |-> FALSE]
    ELSE LET styleItem == legendStyles[i]
         IN IF ~IsArray(styleItem.color)
            THEN [classes |-> <<>>, thrown |-> TRUE]
            ELSE LET updatedColor ==
                         IF IsArray(styleOpacities) /\ Len(styleOpacities.arr) > 0
                         THEN UpdatedColor(styleItem, OpacityOfStyle(styleOpacities, i))
                         ELSE UpdatedColor(styleItem, styleOpacities)
                 IN IF Truthy(styleItem.value) /\ Truthy(updatedColor)
                    THEN ClassesLoop(legendStyles, styleOpacities, i + 1,
                                     classes \o <<styleItem.value, updatedColor>>,
                                     defaultColour)
                    ELSE ClassesLoop(legendStyles, styleOpacities, i + 1,
                                     classes, updatedColor)

GenerateColourClasses(styles, opacities) ==
    LET styleOpacities == IF Truthy(opacities) THEN opacities ELSE Num(Scale)
        legendStyles == GetListOfStyles(styles)
    IN IF Len(legendStyles) > 0
       THEN ClassesLoop(legendStyles, styleOpacities, 1, <<Str("case")>>, Undef)
       ELSE [classes |-> <<Str("case")>>, thrown |-> FALSE]

\* the legends given to Map.Choropleth: rules of three channels and of four,
\* a group, a rule without colour; no legend at all
ChoroplethLegends ==
    {Arr(s) : s \in SeqsUpTo({RuleA, RuleB, RuleGrey, RuleOver, RuleNoColour, GroupAB}, MaxLen)}
        \cup {Null}

\* the opacity argument: the slider's value, a list with one opacity for each
\* style or fewer, or none
ChoroplethOpacities ==
    {Num(o) : o \in {0, 5, 50, 75, Scale}}
        \cup {Arr(s) : s \in SeqsUpTo({Num(0), Num(50), Num(Scale)}, MaxLen)}
        \cup {Undef}

\* Map.Choropleth about to call Map.GenerateColourClasses with the legend and
\* the opacity it was given
ChoroplethInputs ==
    {[kind |-> "input", legend |-> lgd, opacity |-> op, classes |-> <<>>] :
        lgd \in ChoroplethLegends, op \in ChoroplethOpacities}

\* the call: kept are the arguments and the classes returned, or that it
\* ended in a TypeError
CallGenerateColourClasses ==
    LET made == GenerateColourClasses(choropleth.legend, choropleth.opacity)
    IN /\ choropleth.kind = "input"
       /\ choropleth' = [choropleth EXCEPT
                             !.kind = IF made.thrown THEN "thrown" ELSE "classes",
                             !.classes = made.classes]
       /\ UNCHANGED <<app, boot, evented>>

InitChoropleth ==
    /\ NoApp
    /\ boot = BootInit
    /\ evented = EventedInit
    /\ choropleth \in ChoroplethInputs

NextChoropleth == CallGenerateColourClasses

SpecChoropleth == InitChoropleth /\ [][NextChoropleth]_vars

-----------------------------------------------------------------------------
(* Store (src/store.js): every item written and read back *)

\* zoom levels, and latitudes and longitudes in ten-thousandths of a degree,
\* that the map can report; the defaults of the getters
DefaultZoom == 11
DefaultLat == 454215
DefaultLng == -756972
Zooms == {0, 4, DefaultZoom}
Lats == {0, DefaultLat, -338000}
Lngs == {0, DefaultLng, 1512000}
LayerNames == {"da", "db"}

\* the numbers the application writes to the Store
StoredNumbers == SliderValues \cup Zooms \cup Lats \cup Lngs

\* localStorage.setItem(key, value): the item is String(value)
SetItem(value) == IF IsString(value) THEN value ELSE Str(ToString(value.num))

\* Number(localStorage.getItem(key)): 0 of null, else the number the text
\* writes
NumberOfItem(item) ==
    IF item.kind = "null" THEN 0
    ELSE CHOOSE n \in StoredNumbers : ToString(n) = item.str

\* Number(localStorage.getItem(key)) || d
StoreGetNumber(item, d) == IF NumberOfItem(item) # 0 THEN NumberOfItem(item) ELSE d

\* localStorage.getItem(key) || d
StoreGetText(item, d) == IF Truthy(item) THEN item.str ELSE d

StoreZoom == StoreGetNumber(local.zoom, DefaultZoom)
StoreLat == StoreGetNumber(local.lat, DefaultLat)
StoreLng == StoreGetNumber(local.lng, DefaultLng)
StoreOpacity == StoreGetNumber(storage, DefaultOpacity)
StoreLayer == StoreGetText(local.layer, "da")
StoreMap == StoreGetText(local.map, "trans")

\* the setters, each as the handler of PopApp that uses it
\* OnMapMoveEnd_Handler: Store.Lat = center.lat; Store.Lng = center.lng
OnMapMoveEnd_Handler(lat, lng) ==
    /\ local' = [local EXCEPT !.lat = SetItem(Num(lat)), !.lng = SetItem(Num(lng))]
    /\ UNCHANGED <<legend, opacity, storage, call, layers, layerIDs, view, toc, beside>>

\* OnMapZoomEnd_Handler: Store.Zoom = this.map.Zoom
OnMapZoomEnd_Handler(zoom) ==
    /\ local' = [local EXCEPT !.zoom = SetItem(Num(zoom))]
    /\ UNCHANGED <<legend, opacity, storage, call, layers, layerIDs, view, toc, beside>>

\* Store.Opacity = ev.opacity
SetOpacity(value) ==
    /\ storage' = SetItem(Num(value))
    /\ UNCHANGED <<legend, opacity, call, layers, layerIDs, local, view, toc, beside>>

\* Store.Layer = ev.layer
SetLayer(value) ==
    /\ local' = [local EXCEPT !.layer = SetItem(Str(value))]
    /\ UNCHANGED <<legend, opacity, storage, call, layers, layerIDs, view, toc, beside>>

\* Store.Map = ev.id
SetMap(value) ==
    /\ local' = [local EXCEPT !.map = SetItem(Str(value))]
    /\ UNCHANGED <<legend, opacity, storage, call, layers, layerIDs, view, toc, beside>>

InitStore == NoApp /\ Beside

NextStore ==
    \/ \E lat \in Lats, lng \in Lngs : OnMapMoveEnd_Handler(lat, lng)
    \/ \E zoom \in Zooms : OnMapZoomEnd_Handler(zoom)
    \/ \E value \in SliderValues : SetOpacity(value)
    \/ \E value \in LayerNames : SetLayer(value)
    \/ \E value \in MapIds : SetMap(value)

SpecStore == InitStore /\ [][NextStore]_vars

-----------------------------------------------------------------------------
(* PopApp with its maps: the table of contents, the visible layer and the    *)
(* change of map                                                             *)

\* most listeners of 'styledata' waiting at once (Map.SetStyle adds one)
MaxPending == 2

\* config.maps: of each map the layers (Configuration.layers, by id), the
\* items of the table of contents and the legend; "da" is in one map only
MapLayers(m) == IF m = "trans" THEN <<"da", "db">> ELSE <<"db", "csd">>
MapTOC(m) == MapLayers(m)
MapLegend(m) == IF m = "trans" THEN Arr(<<RuleA, RuleGrey>>) ELSE Arr(<<RuleB, RuleGrey>>)

\* the types of the layers in the styles
LayerTypes == ("da" :> "fill") @@ ("db" :> "circle") @@ ("csd" :> "fill")

\* Configuration.HasLayer
HasLayer(m, layerId) == \E i \in 1..Len(MapLayers(m)) : MapLayers(m)[i] = layerId

\* the layers of the style of a map once it is loaded, each with the
\* visibility the style document gives it
StyleLoaded(m, visibility) ==
    [id \in {MapLayers(m)[i] : i \in 1..Len(MapLayers(m))} |->
        [type |-> LayerTypes[id], paint |-> <<>>, visibility |-> visibility]]

\* Map.SetLayoutProperty(layerId, 'visibility', value): only if the layer
\* exists
SetVisibility(ls, layerId, value) ==
    IF layerId \in DOMAIN ls THEN [ls EXCEPT ![layerId].visibility = value] ELSE ls

ShowLayer(ls, layerId) == SetVisibility(ls, layerId, "visible")
HideLayer(ls, layerId) == SetVisibility(ls, layerId, "none")

\* Map.ToggleMapLayerVisibility; getLayoutProperty of a layer the style does
\* not have is undefined
ToggleMapLayerVisibility(ls, layerID) ==
    IF layerID \in DOMAIN ls /\ ls[layerID].visibility = "visible"
    THEN HideLayer(ls, layerID)
    ELSE ShowLayer(ls, layerID)

\* Toc.HasLayer
TocHasLayer(t, layerId) == layerId \in DOMAIN t.radios

\* Toc.Reload(toc): new radios, none checked; `current` stays
TocReload(t, items) ==
    [t EXCEPT !.radios = [id \in {items[i] : i \in 1..Len(items)} |-> FALSE],
              !.thrown = FALSE]

\* Toc.SelectItem(layerId)
SelectItem(t, layerId) ==
    LET unchecked == IF Truthy(t.current) /\ TocHasLayer(t, t.current.str)
                     THEN [t EXCEPT !.radios[t.current.str] = FALSE]
                     ELSE t
    IN IF ~TocHasLayer(unchecked, layerId) THEN unchecked
       ELSE [unchecked EXCEPT !.current = Str(layerId), !.radios[layerId] = TRUE]

\* the TOC of PopApp after (re)loading it for a map: AddGroup and
\* OnListSelected_Handler both select Store.Layer if the map has it
TocOfMap(t, m, layer) ==
    IF HasLayer(m, layer) THEN SelectItem(TocReload(t, MapTOC(m)), layer)
    ELSE TocReload(t, MapTOC(m))

\* new PopApp(config): the current map is config.maps[Store.Map], the map is
\* made with its style and waits for 'styledata', the controls are made
InitView ==
    /\ local \in {[NoItems EXCEPT !.layer = l] : l \in {Null, Str("db"), Str("csd")}}
    /\ storage \in {Null, Str("50"), Str("150"), Str("-20")}
    /\ opacity = StoreGetOpacity(storage)
    /\ \E v \in {"none", "visible"} :
          view = [current |-> StoreMap, style |-> "", loading |-> StoreMap,
                  pending |-> 1, previous |-> "", initially |-> v]
    /\ legend = [config |-> MapLegend(StoreMap),
                 chkBoxesState |-> Arr(LoadLegend(MapLegend(StoreMap)).chk)]
    /\ toc = TocOfMap(NoToc, StoreMap, StoreLayer)
    /\ call = NoCall
    /\ layerIDs = MapLayers(StoreMap)
    /\ layers = <<>>
    /\ Beside

\* PopApp.OnListSelected_Handler(ev) with ev.id = m: the style of the map
\* shown is dropped for the new one, one more listener waits for 'styledata'
OnListSelected_Handler(m) ==
    /\ view.pending < MaxPending
    /\ local' = [local EXCEPT !.map = SetItem(Str(m))]
    /\ view' = [view EXCEPT !.current = m, !.style = "", !.loading = m,
                            !.pending = @ + 1, !.previous = ""]
    /\ layers' = <<>>
    /\ legend' = [config |-> MapLegend(m),
                  chkBoxesState |-> Arr(LoadLegend(MapLegend(m)).chk)]
    /\ call' = Reloaded(legend)
    /\ toc' = TocOfMap(toc, m, StoreLayer)
    /\ layerIDs' = MapLayers(m)
    /\ UNCHANGED <<opacity, storage, beside>>

\* PopApp.OnMapStyleChanged_Handler run n times on the layers
RECURSIVE ToggleTimes(_, _, _)
ToggleTimes(ls, layerID, n) ==
    IF n = 0 THEN ls ELSE ToggleTimes(ToggleMapLayerVisibility(ls, layerID), layerID, n - 1)

\* 'styledata': the style is loaded and every listener that waits is called
\* once; each is Map.OnceStyleData_Handler, which emits StyleChanged to
\* PopApp.OnMapStyleChanged_Handler
OnceStyleData_Handler ==
    /\ view.pending > 0
    /\ view' = [view EXCEPT !.style = view.loading, !.loading = "", !.pending = 0]
    /\ call' = UpdateMapLayers("OnMapStyleChanged_Handler", layerIDs, legend,
                                StoreGetOpacity(storage))
    /\ legend' = [legend EXCEPT !.config = call'.after]
    /\ layers' = PaintLayers(
                     IF HasLayer(view.current, StoreLayer)
                     THEN ToggleTimes(StyleLoaded(view.loading, view.initially),
                                      StoreLayer, view.pending)
                     ELSE StyleLoaded(view.loading, view.initially),
                     call')
    /\ UNCHANGED <<opacity, storage, layerIDs, local, toc, beside>>

\* the user picks the radio of a TOC item that is not checked:
\* Toc.onChange_Handler, which throws on a `current` without radio, then
\* PopApp.OnTOC_LayerVisibility
OnTOC_LayerVisibility(item) ==
    /\ item \in DOMAIN toc.radios
    /\ ~toc.radios[item]
    /\ IF Truthy(toc.current) /\ ~TocHasLayer(toc, toc.current.str)
       THEN /\ toc' = [toc EXCEPT !.radios[item] = TRUE, !.thrown = TRUE]
            /\ UNCHANGED <<layers, local, view>>
       ELSE /\ toc' = [toc EXCEPT
                          !.radios = [id \in DOMAIN toc.radios |-> id = item],
                          !.current = Str(item), !.thrown = FALSE]
            /\ layers' = ToggleMapLayerVisibility(
                             ToggleMapLayerVisibility(layers, StoreLayer), item)
            /\ local' = [local EXCEPT !.layer = SetItem(Str(item))]
            /\ view' = [view EXCEPT !.previous = StoreLayer]
    /\ UNCHANGED <<legend, opacity, storage, call, layerIDs, beside>>

NextView ==
    \/ \E m \in MapIds : OnListSelected_Handler(m)
    \/ OnceStyleData_Handler
    \/ \E item \in DOMAIN LayerTypes : OnTOC_LayerVisibility(item)
    \/ \E i \in 1..Len(legend.chkBoxesState.arr) : OnCheckbox_Checked(i)

SpecView == InitView /\ [][NextView]_vars

-----------------------------------------------------------------------------
(* Properties of the style classifier and of the colour compiler *)

Called == call.kind = "call"

Last(s) == s[Len(s)]

\* the leaf rules of a configuration, depth first and left to right
RECURSIVE Leaves(_)
Leaves(items) ==
    IF items = <<>> THEN <<>>
    ELSE (IF Truthy(Head(items).group) /\ IsArray(Head(items).group.items)
          THEN Leaves(Head(items).group.items.arr)
          ELSE <<Head(items)>>) \o Leaves(Tail(items))

\* a sequence of rules and of groups whose items are rules
OneLevel(config) ==
    /\ IsArray(config)
    /\ \A i \in 1..Len(config.arr) :
          Truthy(config.arr[i].group) =>
              /\ IsArray(config.arr[i].group.items)
              /\ \A j \in 1..Len(config.arr[i].group.items.arr) :
                    ~Truthy(config.arr[i].group.items.arr[j].group)

\* C1: for a configuration of rules and one-level groups, the flattened list
\* holds the styling of the leaf rules in depth-first, left-to-right order,
\* each group replaced in place by its items, and is as long as there are
\* leaf rules.
C1_FlattenPreservesOrder ==
    (Called /\ OneLevel(call.config)) =>
        LET leaves == Leaves(call.config.arr)
        IN /\ Len(call.styles) = Len(leaves)
           /\ \A i \in 1..Len(leaves) :
                 /\ call.styles[i].color = leaves[i].color
                 /\ call.styles[i].value =
                        (IF Truthy(leaves[i].color) THEN leaves[i].value ELSE Undef)

\* a rule in front of a group of two rules was flattened
C1_Witness ==
    /\ Called
    /\ OneLevel(call.config)
    /\ Len(call.config.arr) = 2
    /\ ~Truthy(call.config.arr[1].group)
    /\ Truthy(call.config.arr[2].group)
    /\ Len(call.styles) = 3

\* a flattened rule with a value and a colour of three or four channels
ContributesPair(style) ==
    /\ Truthy(style.value)
    /\ IsArray(style.color)
    /\ Len(style.color.arr) \in {3, 4}

\* the indices of the rules that contribute a pair, in rule order
RECURSIVE PairIndices(_, _)
PairIndices(styles, i) ==
    IF i > Len(styles) THEN <<>>
    ELSE (IF ContributesPair(styles[i]) THEN <<i>> ELSE <<>>) \o PairIndices(styles, i + 1)

\* C2: with two or more flattened rules the colour expression is "case",
\* then one condition/colour pair for each rule that has a value and a
\* resolvable colour, in rule order, then exactly one default element:
\* 2*k+1 elements after the head.
C2_ColourCaseLength ==
    (Called /\ Len(call.styles) >= 2) =>
        LET idx == PairIndices(call.styles, 1)
            k == Len(idx)
        IN /\ IsArray(call.colour)
           /\ call.colour.arr[1] = Str("case")
           /\ Len(call.colour.arr) - 1 = 2 * k + 1
           /\ \A n \in 1..k :
                 /\ call.colour.arr[2 * n] = call.styles[idx[n]].value
                 /\ call.colour.arr[2 * n + 1] =
                        Str((IF Len(call.styles[idx[n]].color.arr) = 3 THEN "rgb(" ELSE "rgba(")
                            \o Join(call.styles[idx[n]].color.arr) \o ")")

\* two pairs in front of a default, from three flattened rules
C2_Witness ==
    /\ Called
    /\ Len(call.styles) = 3
    /\ Len(PairIndices(call.styles, 1)) = 2
    /\ Len(call.colour.arr) = 6

\* C3: with two or more flattened rules the last element of the colour
\* expression is a defined colour string.
C3_DefaultColourDefined ==
    (Called /\ Len(call.styles) >= 2) =>
        /\ IsArray(call.colour)
        /\ IsString(Last(call.colour.arr))

\* C4: with two or more flattened rules the opacity expression ends in one
\* default element that is a number in [0,1].
C4_DefaultOpacityInRange ==
    (Called /\ Len(call.styles) >= 2) =>
        /\ IsArray(call.expression)
        /\ Len(call.expression.arr) % 2 = 0
        /\ InUnitRange(Last(call.expression.arr))

\* C5: with exactly one flattened rule the colour expression is a scalar
\* colour string and the opacity expression a scalar number.
C5_SingleRuleScalar ==
    (Called /\ Len(call.styles) = 1) =>
        /\ IsString(call.colour)
        /\ IsNumber(call.expression)

\* C6: the opacity expression is a scalar exactly when the colour expression
\* is a scalar, and a "case" list exactly when the colour expression is one.
C6_SameShape ==
    Called =>
        /\ IsNumber(call.expression) <=> IsString(call.colour)
        /\ IsArray(call.expression) <=> IsArray(call.colour)

-----------------------------------------------------------------------------
(* Properties of the per-rule opacities *)

CheckboxCount == IF Called /\ Truthy(call.chk) THEN Len(call.chk.arr) ELSE 0

\* the rule paired with the i-th checkbox, as the call received it
RuleOf(i) == ItemAt(call.config, call.chk.arr[i].path)

\* C7: a rule whose checkbox is unchecked gets opacity 0, whatever its fixed
\* opacity and whatever the global opacity, in every compilation made while
\* the checkbox stays unchecked.
C7_CheckboxDominance ==
    \A i \in 1..CheckboxCount :
        ~call.chk.arr[i].checked => call.values[i] = Num(0)

\* a slider change compiled a legend with an unchecked rule of fixed opacity
\* 1.5 under a global opacity above 0
C7_Witness ==
    /\ Called
    /\ call.by = "OnOpacitySlider_Changed"
    /\ call.opacity.num > 0
    /\ \E i \in 1..CheckboxCount :
          /\ ~call.chk.arr[i].checked
          /\ RuleOf(i).opacity = Num(150)
          /\ call.values[i] = Num(0)

Clamp(o) == IF o > Scale THEN Scale ELSE IF o < 0 THEN 0 ELSE o

\* C8: a checked rule with a fixed numeric opacity o gets min(1, max(0, o)).
C8_FixedOpacityClamped ==
    \A i \in 1..CheckboxCount :
        (call.chk.arr[i].checked /\ IsNumber(RuleOf(i).opacity)) =>
            call.values[i] = Num(Clamp(RuleOf(i).opacity.num))

\* C9: a checked rule without a fixed numeric opacity gets the global opacity
\* passed in, which after a slider change is the slider's new value.
C9_GlobalOpacityFollowsSlider ==
    \A i \in 1..CheckboxCount :
        (call.chk.arr[i].checked /\ ~IsNumber(RuleOf(i).opacity)) =>
            /\ call.values[i] = call.opacity
            /\ call.by = "OnOpacitySlider_Changed" => call.values[i] = Num(opacity)

\* C10: compiling leaves the legend configuration and the checkbox state as
\* they were.
C10_InputsNotMutated ==
    Called =>
        /\ call.after = call.config
        /\ call.by = "OnOpacitySlider_Changed" =>
              /\ legend.config = call.config
              /\ legend.chkBoxesState = call.chk

-----------------------------------------------------------------------------
(* Properties of the legend control against the style classifier *)

\* the styling of the rule the i-th checkbox entry of the legend refers to
StylingOfCheckbox(i) ==
    GetStylingFromLegendItem(ItemAt(legend.config, legend.chkBoxesState.arr[i].path))

\* C11: after Legend.Reload(config) the checkbox state pairs one-to-one and
\* in order with the flattened rules: both lists have the same length and the
\* i-th checkbox entry's item is the rule that produced the i-th style.
C11_CheckboxesPairWithStyles ==
    IsArray(legend.config) =>
        LET styles == GetListOfStyles(legend.config)
        IN /\ Len(legend.chkBoxesState.arr) = Len(styles)
           /\ \A i \in 1..Len(styles) : StylingOfCheckbox(i) = styles[i]

-----------------------------------------------------------------------------
(* Properties of the symbol adapter *)

\* C12: generateSymbolOpacityExpression binarizes and nothing else: a scalar
\* number becomes 1 if it is above 0 and 0 otherwise; a "case" list becomes a
\* list of the same length in which every number x is 1 if x > 0 else 0 and
\* every other element (the head, the conditions) is the same element at the
\* same position.
C12_SymbolBinarizes ==
    Called =>
        /\ IsNumber(call.expression) =>
              call.symbol = (IF call.expression.num > 0 THEN Num(Scale) ELSE Num(0))
        /\ IsArray(call.expression) =>
              /\ IsArray(call.symbol)
              /\ Len(call.symbol.arr) = Len(call.expression.arr)
              /\ \A i \in 1..Len(call.expression.arr) :
                    IF IsNumber(call.expression.arr[i])
                    THEN call.symbol.arr[i] =
                             (IF call.expression.arr[i].num > 0 THEN Num(Scale) ELSE Num(0))
                    ELSE call.symbol.arr[i] = call.expression.arr[i]

\* a "case" list with a condition, an opacity of 0.5 and an opacity of 0 was
\* adapted
C12_Witness ==
    /\ Called
    /\ IsArray(call.expression)
    /\ \E i, j, k \in 1..Len(call.expression.arr) :
          /\ call.expression.arr[i] = Num(50) /\ call.symbol.arr[i] = Num(Scale)
          /\ call.expression.arr[j] = Num(0) /\ call.symbol.arr[j] = Num(0)
          /\ IsArray(call.expression.arr[k]) /\ call.symbol.arr[k] = call.expression.arr[k]

-----------------------------------------------------------------------------
(* Properties of the default colour *)

\* the colour string of a list of three or four channels, undefined otherwise
RGBText(color) ==
    IF IsArray(color) /\ Len(color.arr) = 3 THEN Str("rgb(" \o Join(color.arr) \o ")")
    ELSE IF IsArray(color) /\ Len(color.arr) = 4 THEN Str("rgba(" \o Join(color.arr) \o ")")
    ELSE Undef

\* the indices of the flattened rules that lack a value, in rule order
RECURSIVE ValuelessIndices(_, _)
ValuelessIndices(styles, i) ==
    IF i > Len(styles) THEN <<>>
    ELSE (IF Truthy(styles[i].value) THEN <<>> ELSE <<i>>) \o ValuelessIndices(styles, i + 1)

\* C13: with two or more flattened rules of which several lack a value, the
\* default (last) element of the colour expression is the colour of the last
\* flattened rule that lacks a value, and the colour of an earlier value-less
\* rule appears nowhere in the expression (unless a rule that does contribute
\* has the same colour).
C13_LastValuelessRuleIsDefault ==
    (Called /\ Len(call.styles) >= 2 /\ Len(ValuelessIndices(call.styles, 1)) >= 2) =>
        LET idx == ValuelessIndices(call.styles, 1)
            last == idx[Len(idx)]
            contributing == {last} \cup {j \in 1..Len(call.styles) : ContributesPair(call.styles[j])}
        IN /\ IsArray(call.colour)
           /\ Last(call.colour.arr) = RGBText(call.styles[last].color)
           /\ \A n \in 1..(Len(idx) - 1) :
                 \A p \in 1..Len(call.colour.arr) :
                     (call.colour.arr[p] = RGBText(call.styles[idx[n]].color)) =>
                         \E j \in contributing :
                             RGBText(call.styles[j].color) = RGBText(call.styles[idx[n]].color)

\* the top-level rules of a configuration that have a colour, and its groups
WithoutColourless(config) ==
    Arr(SelectSeq(config.arr, LAMBDA item : Truthy(item.group) \/ Truthy(item.color)))

\* C14: a legend rule without colour raises no error and contributes nothing
\* to the colour expression: loading the legend does not throw, and in a
\* legend of three or more rules the compiled colour expression is the one of
\* the legend with that rule removed (no pair added, default unchanged).
C14_ColourlessRuleContributesNothing ==
    /\ IsArray(legend.config) => ~LoadLegend(legend.config).thrown
    /\ (Called /\ IsArray(call.config) /\ Len(call.styles) >= 3) =>
          call.colour =
              generateColourExpression([config |-> WithoutColourless(call.config),
                                        chkBoxesState |-> call.chk])

-----------------------------------------------------------------------------
(* Properties of the flattening of malformed and nested configurations *)

\* an entry with neither label nor group
Malformed(item) == ~Truthy(item.label) /\ ~Truthy(item.group)

\* the leaf rules of a configuration that have a label
Labelled(leaves) == SelectSeq(leaves, LAMBDA item : ~Malformed(item))

\* C15: an entry with neither label nor group does not appear in the output
\* of GetListOfStyles: the flattened list is the styling of the labelled leaf
\* rules only.
C15_MalformedRuleSkipped ==
    (Called /\ OneLevel(call.config)) =>
        LET leaves == Labelled(Leaves(call.config.arr))
        IN /\ Len(call.styles) = Len(leaves)
           /\ \A i \in 1..Len(leaves) : call.styles[i].color = leaves[i].color

\* C16: flattening is recursive: the leaf rules of a group inside a group are
\* emitted in place, in order, at any depth.
C16_FlattenRecursive ==
    (Called /\ IsArray(call.config)) =>
        LET leaves == Leaves(call.config.arr)
        IN /\ Len(call.styles) = Len(leaves)
           /\ \A i \in 1..Len(leaves) :
                 /\ call.styles[i].color = leaves[i].color
                 /\ call.styles[i].value =
                        (IF Truthy(leaves[i].color) THEN leaves[i].value ELSE Undef)

-----------------------------------------------------------------------------
(* The legend of two conditions and a default *)

\* rule A red on type == A, rule B blue on type == B, a grey rule without
\* value, every checkbox checked, global opacity 0.5
ScenarioCompiled ==
    /\ Called
    /\ call.config = Arr(<<RuleA, RuleB, RuleGrey>>)
    /\ Truthy(call.chk)
    /\ Len(call.chk.arr) = 3
    /\ \A i \in 1..3 : call.chk.arr[i].checked
    /\ call.opacity = Num(50)

-----------------------------------------------------------------------------
(* Properties of a checkbox toggle *)

\* what Map.UpdateMapLayers compiles from the current legend once its i-th
\* checkbox is unchecked, under the stored opacity of the last call
AfterUnchecking(i) ==
    UpdateMapLayers(call.by, call.layerIDs,
                    [legend EXCEPT !.chkBoxesState.arr[i].checked = FALSE],
                    call.stored)

\* the elements of an expression: of a "case" list, or the one scalar
Elements(e) == IF IsArray(e) THEN e.arr ELSE <<e>>

\* the positions at which two expressions differ (0: in shape or length)
Differing(e1, e2) ==
    IF IsArray(e1) = IsArray(e2) /\ Len(Elements(e1)) = Len(Elements(e2))
    THEN {p \in 1..Len(Elements(e1)) : Elements(e1)[p] # Elements(e2)[p]}
    ELSE {0}

\* C18: unchecking checkbox i of a compiled legend turns the i-th opacity
\* result into 0, leaves the result of every other rule and every other
\* element of the opacity expression as compiled before the toggle, and
\* leaves the colour expression identical.
C18_ToggleChangesOnlyItsRule ==
    (Called /\ call.by = "OnOpacitySlider_Changed") =>
        \A i \in 1..Len(legend.chkBoxesState.arr) :
            legend.chkBoxesState.arr[i].checked =>
                LET next == AfterUnchecking(i)
                IN /\ next.values[i] = Num(0)
                   /\ \A j \in 1..Len(call.values) : j # i => next.values[j] = call.values[j]
                   /\ Cardinality(Differing(call.expression, next.expression)) <= 1
                   /\ \A p \in Differing(call.expression, next.expression) :
                         p # 0 /\ Elements(next.expression)[p] = Num(0)
                   /\ next.colour = call.colour

-----------------------------------------------------------------------------
(* Properties of the paint properties of the layers *)

\* the layers of current.LayerIDs that the style has
CurrentLayers == {layerIDs[n] : n \in 1..Len(layerIDs)} \cap DOMAIN layers

\* the paint property that carries the opacity of a layer
OpacityProperty(id) ==
    IF layers[id].type = "symbol" THEN "text-opacity" ELSE layers[id].type \o "-opacity"

\* the opacity expression of the current legend, checkbox state and stored
\* global opacity, as a layer of the given id takes it
CompiledNow(id) ==
    LET now == generateOpacityExpression(legend, Num(StoreGetOpacity(storage))).expression
    IN IF layers[id].type = "symbol" THEN generateSymbolOpacityExpression(now) ELSE now

\* C19: after any sequence of slider changes and checkbox toggles the opacity
\* paint property last applied to each current layer is the expression
\* compiled from the current legend, checkbox state and global opacity.
C19_PaintFollowsLegendState ==
    \A id \in CurrentLayers :
        OpacityProperty(id) \in DOMAIN layers[id].paint =>
            layers[id].paint[OpacityProperty(id)] = CompiledNow(id)

\* the paint properties UpdateMapLayers may set on a layer of a type
PropertiesOf(type) ==
    IF type = "symbol" THEN {"text-opacity"}
    ELSE {type \o "-color", type \o "-opacity"}
             \cup (IF type = "circle" THEN {"circle-stroke-opacity"} ELSE {})

\* C20: when the compiled expressions are applied, a layer of a type T other
\* than symbol has the colour on T-color and the opacity on T-opacity, a
\* circle layer also on circle-stroke-opacity, and a symbol layer has no
\* colour property and only the binarized opacity on text-opacity; no other
\* paint property is set.
C20_PaintProperties ==
    /\ \A id \in DOMAIN layers : DOMAIN layers[id].paint \subseteq PropertiesOf(layers[id].type)
    /\ Called =>
          \A n \in 1..Len(call.layerIDs) :
              LET id == call.layerIDs[n]
                  defined == IsArray(call.expression) \/ IsNumber(call.expression)
              IN id \in DOMAIN layers =>
                  LET type == layers[id].type
                      paint == layers[id].paint
                  IN IF type # "symbol"
                     THEN /\ Truthy(call.colour) =>
                                /\ (type \o "-color") \in DOMAIN paint
                                /\ paint[type \o "-color"] = call.colour
                          /\ defined =>
                                /\ (type \o "-opacity") \in DOMAIN paint
                                /\ paint[type \o "-opacity"] = call.expression
                                /\ type = "circle" =>
                                      /\ "circle-stroke-opacity" \in DOMAIN paint
                                      /\ paint["circle-stroke-opacity"] = call.expression
                     ELSE defined =>
                                /\ "text-opacity" \in DOMAIN paint
                                /\ paint["text-opacity"] = call.symbol
                                /\ \A x \in {Elements(call.symbol)[p] : p \in 1..Len(Elements(call.symbol))} :
                                      IsNumber(x) => x \in {Num(0), Num(Scale)}

\* a slider change painted a fill, a circle and a symbol layer from a "case"
\* list with an opacity of 0.5, and passed over the layer the style lacks
C20_Witness ==
    /\ Called
    /\ call.by = "OnOpacitySlider_Changed"
    /\ call.layerIDs = <<"da", "csd", "db", "da-label">>
    /\ IsArray(call.colour)
    /\ \E p \in 1..Len(Elements(call.expression)) : Elements(call.expression)[p] = Num(50)
    /\ layers["da"].paint["fill-color"] = call.colour
    /\ layers["da"].paint["fill-opacity"] = call.expression
    /\ layers["db"].paint["circle-stroke-opacity"] = call.expression
    /\ layers["da-label"].paint["text-opacity"] = call.symbol
    /\ call.symbol # call.expression
    /\ "csd" \notin DOMAIN layers

\* the ids of a call that the style has and that come after one it lacks
AfterMissing ==
    {call.layerIDs[n] : n \in {m \in 1..Len(call.layerIDs) :
                                 /\ call.layerIDs[m] \in DOMAIN layers
                                 /\ \E k \in 1..(m - 1) : call.layerIDs[k] \notin DOMAIN layers}}

\* C21: a layer id of a call that the current style does not have gets no
\* paint property (no layer is made up for it) and does not keep the layer ids
\* behind it in the same call from receiving the opacity expression.
C21_MissingLayerSkipped ==
    /\ DOMAIN layers \subseteq DOMAIN StyleLayers
    /\ (Called /\ (IsArray(call.expression) \/ IsNumber(call.expression))) =>
          \A id \in AfterMissing :
              /\ OpacityProperty(id) \in DOMAIN layers[id].paint
              /\ layers[id].paint[OpacityProperty(id)] =
                     (IF layers[id].type = "symbol" THEN call.symbol ELSE call.expression)

\* a call named a missing layer in front of a circle and a symbol layer and
\* painted both
C21_Witness ==
    /\ Called
    /\ \E n \in 1..Len(call.layerIDs) : call.layerIDs[n] \notin DOMAIN layers
    /\ {"db", "da-label"} \subseteq AfterMissing
    /\ IsArray(call.expression)
    /\ layers["db"].paint["circle-opacity"] = call.expression
    /\ layers["da-label"].paint["text-opacity"] = call.symbol

-----------------------------------------------------------------------------
(* Properties of a reload of the legend *)

\* a path that leads to an item of the list, through groups only
RECURSIVE ValidPath(_, _)
ValidPath(items, path) ==
    /\ path # <<>>
    /\ path[1] \in 1..Len(items)
    /\ Len(path) > 1 =>
          /\ Truthy(items[path[1]].group)
          /\ IsArray(items[path[1]].group.items)
          /\ ValidPath(items[path[1]].group.items.arr, Tail(path))

\* C22: after Legend.Reload(config), whatever checkboxes were unchecked
\* before, the checkbox state holds only entries made for the new
\* configuration (each for a different labelled rule of it) and every
\* checkbox in it is checked.
C22_ReloadRebuildsCheckboxes ==
    call.kind = "reload" =>
        LET chk == legend.chkBoxesState.arr
        IN /\ \A i \in 1..Len(chk) : chk[i].checked
           /\ Len(chk) > 0 => IsArray(legend.config)
           /\ \A i \in 1..Len(chk) :
                 /\ ValidPath(legend.config.arr, chk[i].path)
                 /\ Truthy(ItemAt(legend.config, chk[i].path).label)
                 /\ ~Truthy(ItemAt(legend.config, chk[i].path).group)
           /\ \A i, j \in 1..Len(chk) : chk[i].path = chk[j].path => i = j

\* a legend with an unchecked box was reloaded with a configuration that
\* makes two checkboxes or more
C22_Witness ==
    /\ call.kind = "reload"
    /\ call.unchecked
    /\ Len(legend.chkBoxesState.arr) >= 2

-----------------------------------------------------------------------------
(* Algebraic properties of the symbol adapter *)

\* C29: for every opacity expression the opacity compiler produced, adapting
\* the adapted expression again gives the same result as adapting once, a
\* scalar stays a scalar, a list stays a list of the same length, and every
\* number of the result is 0 or 1.
C29_SymbolIdempotent ==
    Called =>
        /\ generateSymbolOpacityExpression(call.symbol) = call.symbol
        /\ IsNumber(call.expression) => IsNumber(call.symbol)
        /\ IsArray(call.expression) =>
              /\ IsArray(call.symbol)
              /\ Len(call.symbol.arr) = Len(call.expression.arr)
        /\ \A p \in 1..Len(Elements(call.symbol)) :
              IsNumber(Elements(call.symbol)[p]) =>
                  Elements(call.symbol)[p].num \in {0, Scale}

\* a list with opacities strictly between 0 and 1 and a scalar of that kind
\* were adapted
C29_Witness ==
    /\ Called
    /\ call.symbol # call.expression
    /\ \/ /\ IsArray(call.expression)
          /\ \E p \in 1..Len(call.expression.arr) : call.expression.arr[p] = Num(75)
       \/ call.expression = Num(50)
    /\ generateSymbolOpacityExpression(call.symbol) = call.symbol

-----------------------------------------------------------------------------
(* Properties of the start-up *)

\* C23: in every interleaving of the start-up requests and the splash screen
\* the application is constructed at most once, and only after every request
\* and the splash are done and config.maps, config.bookmarks, config.search
\* and config.credentials are filled; after a failed request it is never
\* constructed.
C23_ConstructedOnceAfterAll ==
    /\ boot.constructed <= 1
    /\ boot.constructed = 1 =>
          /\ \A q \in Promises : boot.status[q] = "done"
          /\ {"maps", "bookmarks", "search", "credentials"} \subseteq boot.config
    /\ (\E q \in Promises : boot.status[q] = "failed") => boot.constructed = 0

\* the application was constructed
C23_Witness ==
    /\ boot.constructed = 1
    /\ boot.status["splash"] = "done"
    /\ \A d \in Definitions : boot.status[d] = "done"

-----------------------------------------------------------------------------
(* Properties of Evented *)

\* how often a callback occurs in a sequence of callbacks
RECURSIVE Occurrences(_, _)
Occurrences(seq, c) ==
    IF seq = <<>> THEN 0
    ELSE (IF Head(seq) = c THEN 1 ELSE 0) + Occurrences(Tail(seq), c)

\* the callbacks of the registrations of a stack
CallbacksOf(stack) == [i \in 1..Len(stack) |-> stack[i].callback]

\* C30: over any sequence of On, Once, Off and Emit (with a listener that
\* calls Off during dispatch): a registration made with Once is invoked at
\* most once; a dispatch invokes each listener registered at its start exactly
\* once and ends without error; and the removal of the Once registrations
\* after the dispatch leaves an On registration of the same callback in place.
C30_OnceAndOn ==
    /\ \A i \in 1..Len(evented.listeners) :
          evented.listeners[i].once => evented.listeners[i].n <= 1
    /\ evented.last = "emit" =>
          /\ ~evented.thrown
          /\ \A c \in Callbacks :
                Occurrences(evented.invoked, c) = Occurrences(CallbacksOf(evented.before), c)
          /\ \A i \in 1..Len(evented.before) :
                (~evented.before[i].once /\ evented.before[i].callback = "f") =>
                    \E j \in 1..Len(evented.listeners) :
                        /\ evented.listeners[j].callback = "f"
                        /\ ~evented.listeners[j].once

-----------------------------------------------------------------------------
(* Properties of the earlier colour compiler *)

\* every rule of the flattened legend has a colour of three channels
ThreeChannels(styles) ==
    \A i \in 1..Len(styles) : IsArray(styles[i].color) /\ Len(styles[i].color.arr) = 3

\* the opacity of the i-th style, if the argument gives one within [0,1]
GivenOpacity(op, i) ==
    IF IsNumber(op) THEN op
    ELSE IF IsArray(op) /\ i <= Len(op.arr) THEN op.arr[i]
    ELSE Undef

\* 'rgba(r,g,b,o)'
RGBAText(color, o) == Str("rgba(" \o Join(color.arr) \o "," \o NumberText(o) \o ")")

\* the colours of the classes, in order, without "case" and the conditions
RECURSIVE ColoursOf(_, _, _)
ColoursOf(styles, op, i) ==
    IF i > Len(styles) THEN <<>>
    ELSE (IF Truthy(styles[i].value)
          THEN <<styles[i].value, RGBAText(styles[i].color, GivenOpacity(op, i).num)>>
          ELSE <<>>)
         \o ColoursOf(styles, op, i + 1)

\* C28: for a legend of 3-channel colours and an opacity in [0,1], 0
\* included (one for all rules, or a list with one for each rule), the
\* classes start with "case", each rule with a value is followed by
\* 'rgba(r,g,b,o)' with its own o as alpha, and for a non-empty legend the
\* last class is the colour, with its own o, of the last rule lacking a value
C28_ColourClasses ==
    LET styles == GetListOfStyles(choropleth.legend)
        op == choropleth.opacity
        valueless == {i \in 1..Len(styles) : ~Truthy(styles[i].value)}
        last == CHOOSE i \in valueless : \A j \in valueless : j <= i
        n == Len(choropleth.classes)
    IN (/\ choropleth.kind \in {"classes", "thrown"}
        /\ ThreeChannels(styles)
        /\ \A i \in 1..Len(styles) :
              /\ IsNumber(GivenOpacity(op, i))
              /\ GivenOpacity(op, i).num \in 0..Scale)
       => /\ choropleth.kind = "classes"
          /\ choropleth.classes[1] = Str("case")
          /\ SubSeq(choropleth.classes, 2, 1 + Len(ColoursOf(styles, op, 1)))
                 = ColoursOf(styles, op, 1)
          /\ (styles # <<>> /\ valueless # {})
                 => choropleth.classes[n] = RGBAText(styles[last].color, GivenOpacity(op, last).num)

-----------------------------------------------------------------------------
(* Properties of the Store *)

\* the number whose write left this item
WrittenNumber(item) == CHOOSE v \in StoredNumbers : SetItem(Num(v)) = item

\* C25: a value written to the Store is the value read back, 0 included
\* (opacity, zoom, latitude, longitude, layer and map id); the default is
\* read only while nothing is stored
C25_StoreRoundTrip ==
    /\ StoreOpacity = IF storage = Null THEN DefaultOpacity ELSE WrittenNumber(storage)
    /\ StoreZoom = IF local.zoom = Null THEN DefaultZoom ELSE WrittenNumber(local.zoom)
    /\ StoreLat = IF local.lat = Null THEN DefaultLat ELSE WrittenNumber(local.lat)
    /\ StoreLng = IF local.lng = Null THEN DefaultLng ELSE WrittenNumber(local.lng)
    /\ StoreLayer = IF local.layer = Null THEN "da" ELSE local.layer.str
    /\ StoreMap = IF local.map = Null THEN "trans" ELSE local.map.str

-----------------------------------------------------------------------------
(* Properties of the table of contents and of the visible layer *)

\* C27: the Toc never reads the radio of a `current` that has no radio:
\* whenever Toc.onChange_Handler (or SelectItem) reads radios[current],
\* current is unset or a key of radios, so no pick of a radio ends in a
\* TypeError
C27_TocCurrentHasRadio == ~toc.thrown

Visible(layerId) == layerId \in DOMAIN layers /\ layers[layerId].visibility = "visible"

\* C26: once the style of the current map is loaded, after any TOC
\* selections and changes of map, the layer named by Store.Layer is visible
\* if the current map has it, and the layer selected in the TOC before it is
\* not
C26_StoredLayerVisible ==
    (view.current # "" /\ view.pending = 0)
       => /\ HasLayer(view.current, StoreLayer) => Visible(StoreLayer)
          /\ (view.previous # "" /\ view.previous # StoreLayer) => ~Visible(view.previous)

-----------------------------------------------------------------------------
(* Properties of the global opacity *)

====
